---- MODULE Spec2Model ----
(***************************************************************************)
(* A model of the risk-scoring scripts of phite:                           *)
(*   risk-scoring/scripts/query_gwas.py          query_gwas                *)
(*   risk-scoring/scripts/load_user_genotype.py  load_user_genotype        *)
(* One behaviour is one call of query_gwas (optionally followed by a       *)
(* second call on the same table stored in the other format) or one call   *)
(* of load_user_genotype.  Each action is one statement group of the       *)
(* function; pc is the position of the call.                               *)
(***************************************************************************)
EXTENDS Integers, Sequences, FiniteSets

VARIABLES
    exists,       \* os.path.exists(gwas_path)
    gwas_path,    \* the extension of gwas_path as written (os.path.splitext(..)[1])
    file,         \* what is stored at gwas_path
    rsid_list,    \* the identifier list
    pc,           \* position of the query_gwas call
    con,          \* the duckdb connection: "none", "open", "closed"
    table,        \* index in file.tables of the table the query reads (0: none yet)
    filter_rsid,  \* the TEMP TABLE filter_rsid
    i,            \* the chunk loop's index
    inserts,      \* history: the slices [from, to] of rsid_list, one per INSERT run
    df,           \* the loaded data frame
    result,       \* what the call returned or raised
    log,          \* history: the steps of the call, in the order they ran
    prev,         \* the outcome of the first call, once a second one was made
    gfile,        \* the genotype file given to load_user_genotype
    gpc,          \* position of the load_user_genotype call
    sep_i,        \* index in the delimiter list of load_user_genotype's loop
    gresult       \* what load_user_genotype returned or raised

vars == <<exists, gwas_path, file, rsid_list, pc, con, table, filter_rsid, i,
          inserts, df, result, log, prev, gfile, gpc, sep_i, gresult>>

qvars == <<exists, gwas_path, file, rsid_list, pc, con, table, filter_rsid, i,
           inserts, df, result, log, prev>>

gvars == <<gfile, gpc, sep_i, gresult>>

-----------------------------------------------------------------------------
(* Bounds of the model.                                                    *)

\* longest identifier list
MaxLen == 3
\* most rows of an association table
MaxRows == 2
\* most data lines of a genotype file
MaxDataRows == 2
\* query_gwas.py:71 sets chunk_size = 50000; the model runs the same loop
\* with a batch size small enough for lists of MaxLen identifiers to need
\* several batches.
chunk_size == 2

-----------------------------------------------------------------------------
(* Strings whose characters matter are sequences of one-character strings. *)

\* identifiers: a plain one, one with a single quote, one with the quote doubled
Ids == { <<"r","1">>, <<"r","'","1">>, <<"r","'","'","1">> }

RECURSIVE Concat(_)
Concat(ss) == IF ss = <<>> THEN <<>> ELSE Head(ss) \o Concat(Tail(ss))

RECURSIVE Join(_, _)
Join(sepr, ss) ==
    IF ss = <<>> THEN <<>>
    ELSE IF Len(ss) = 1 THEN Head(ss)
    ELSE Head(ss) \o sepr \o Join(sepr, Tail(ss))

Count(x, s) == Cardinality({k \in DOMAIN s : s[k] = x})

Range(s) == {s[k] : k \in DOMAIN s}

SeqsUpTo(S, n) == UNION {[1..k -> S] : k \in 0..n}

RECURSIVE Repeat(_, _)
Repeat(x, n) == IF n = 0 THEN <<>> ELSE <<x>> \o Repeat(x, n - 1)

REQUIRED_COLUMNS ==
    << "rsid", "risk_allele", "pvalue", "beta", "trait", "trait_uri", "study_id",
       "mapped_gene", "upstream_gene_id", "downstream_gene_id", "snp_gene_ids",
       "chr", "chr_pos", "context", "is_intergenic", "risk_allele_freq", "ci_95_text" >>

\* str.lower() on the extensions the model uses
Lower(e) ==
    CASE e = ".PARQUET" -> ".parquet"
      [] e = ".DUCKDB" -> ".duckdb"
      [] e = ".TXT" -> ".txt"
      [] e = ".CSV" -> ".csv"
      [] OTHER -> e

\* mutant of SupportedExts: .txt is let through as well
SupportedExts_WithTxt == {".parquet", ".duckdb", ".txt"}

\* ext not in {'.parquet', '.duckdb'}
SupportedExts == {".parquet", ".duckdb"}

-----------------------------------------------------------------------------
(* The INSERT statement of the chunk loop: the text query_gwas formats and *)
(* what DuckDB's parser reads back from it.                                *)

\* ','.join([f"('{r}')" for r in chunk])
ValuesText(chunk) ==
    Join(<<",">>, [k \in DOMAIN chunk |-> <<"(", "'">> \o chunk[k] \o <<"'", ")">>])

SyntaxError == [ok |-> FALSE, rows |-> <<>>]

RECURSIVE ParseString(_, _, _, _)
RECURSIVE ParseTuple(_, _, _)
\* a VALUES list of one-column tuples of string literals: ('..'),('..'),...
ParseTuple(text, pos, rows) ==
    IF pos + 1 <= Len(text) /\ text[pos] = "(" /\ text[pos + 1] = "'"
    THEN ParseString(text, pos + 2, <<>>, rows)
    ELSE SyntaxError

\* inside a string literal: '' is a quote character, a lone ' ends the literal
ParseString(text, pos, acc, rows) ==
    IF pos > Len(text) THEN SyntaxError
    ELSE IF text[pos] # "'" THEN ParseString(text, pos + 1, Append(acc, text[pos]), rows)
    ELSE IF pos + 1 <= Len(text) /\ text[pos + 1] = "'"
         THEN ParseString(text, pos + 2, Append(acc, "'"), rows)
    ELSE IF pos + 1 <= Len(text) /\ text[pos + 1] = ")"
         THEN IF pos + 1 = Len(text) THEN [ok |-> TRUE, rows |-> Append(rows, acc)]
              ELSE IF text[pos + 2] = "," THEN ParseTuple(text, pos + 3, Append(rows, acc))
              ELSE SyntaxError
    ELSE SyntaxError

\* con.execute("INSERT INTO filter_rsid VALUES {}".format(...)): the rows the
\* statement inserts, or a syntax error
InsertValues(chunk) == ParseTuple(ValuesText(chunk), 1, <<>>)

-----------------------------------------------------------------------------
(* Files, tables, data frames and outcomes.                                *)

\* a table: its name, its column names in stored order, and its rows; a row
\* is written as the value of its rsid field, so equal rows are equal values
Tbl(name, columns, rows) == [name |-> name, columns |-> columns, rows |-> rows]

RECURSIVE Without(_, _)
Without(s, drop) ==
    IF s = <<>> THEN <<>>
    ELSE IF Head(s) \in drop THEN Without(Tail(s), drop)
    ELSE <<Head(s)>> \o Without(Tail(s), drop)

RECURSIVE Reverse(_)
Reverse(s) == IF s = <<>> THEN <<>> ELSE Append(Reverse(Tail(s)), Head(s))

\* column lists of stored tables: the schema itself, the schema reordered with
\* an extra column, and two with required columns absent
ColumnChoices ==
    { REQUIRED_COLUMNS,
      <<"extra">> \o Reverse(REQUIRED_COLUMNS),
      Without(REQUIRED_COLUMNS, {"rsid"}),
      Without(REQUIRED_COLUMNS, {"beta", "chr"}) }

RowChoices == SeqsUpTo(Ids, MaxRows)

\* a table of a database that is not the associations table (SHOW TABLES
\* lists by name, so it comes before associations_clean)
Decoy == Tbl("aa_meta", <<"id">>, <<>>)

Unreadable == [readable |-> FALSE, tables |-> <<>>]

ParquetFile(columns, rows) == [readable |-> TRUE, tables |-> <<Tbl("", columns, rows)>>]

DuckdbFile(tables) == [readable |-> TRUE, tables |-> tables]

\* a readable file that holds no table (a text file, an empty database)
TextFile == [readable |-> TRUE, tables |-> <<>>]

\* what SHOW TABLES lists, around a table t holding the associations
Listings(columns, rows) ==
    { <<Tbl("associations_clean", columns, rows)>>,
      <<Tbl("other", columns, rows)>>,
      <<Decoy, Tbl("associations_clean", columns, rows)>> }

\* the files that can be stored under a path with extension ext
FilesAt(there, ext) ==
    IF ~there THEN {Unreadable}
    ELSE IF ext = ".parquet"
         THEN {Unreadable} \cup {ParquetFile(c, r) : c \in ColumnChoices, r \in RowChoices}
    ELSE IF ext = ".duckdb"
         THEN {Unreadable, DuckdbFile(<<>>)}
              \cup {DuckdbFile(l) : l \in UNION {Listings(c, r) : c \in ColumnChoices, r \in RowChoices}}
    ELSE {Unreadable, TextFile}

Exts == {".parquet", ".PARQUET", ".duckdb", ".txt"}

NoFrame == [columns |-> <<>>, rows |-> <<>>]

NoTemp == [state |-> "none", rows |-> <<>>]

NoResult == [kind |-> "none", message |-> <<>>, columns |-> <<>>, rows |-> <<>>]

\* return of a data frame
Returned(columns, rows) ==
    [kind |-> "ok", message |-> <<>>, columns |-> columns, rows |-> rows]

\* raise GWASQueryError(message) / GenotypeFileError(message); the message is
\* kept as its literal prefix followed by the formatted parts
Raised(message) ==
    [kind |-> "error", message |-> message, columns |-> <<>>, rows |-> <<>>]

\* the except clause of query_gwas: any exception of the try block becomes
\* "Failed to load GWAS file: <its message>"
LoadFailure(cause) == Raised(<<"Failed to load GWAS file: ">> \o cause)

\* the category a caller reads off an error: the literal prefix of its message
Category(r) ==
    IF r.kind # "error" THEN "none"
    ELSE CASE r.message[1] = "File does not exist: " -> "NotFound"
           [] r.message[1] = "Unsupported file type: " -> "UnsupportedFormat"
           [] r.message[1] = "Failed to load GWAS file: " -> "LoadFailure"
           [] r.message[1] = "Missing required columns: " -> "MissingColumns"
           [] r.message[1] = "No tables found in DuckDB file." -> "NoTablesFound"
           [] OTHER -> "other"

\* [col for col in REQUIRED_COLUMNS if col not in df.columns]
Missing(columns) == SelectSeq(REQUIRED_COLUMNS, LAMBDA c : c \notin Range(columns))

\* table resolution: 'associations_clean' if listed, else the first table
\* listed, else 0 (no tables)
ResolveTable(tables) ==
    IF \E k \in DOMAIN tables : tables[k].name = "associations_clean"
    THEN CHOOSE k \in DOMAIN tables : tables[k].name = "associations_clean"
    ELSE IF tables # <<>> THEN 1
    ELSE 0

\* rsid_list[i:i+chunk_size], i counted from 0
Chunk(list, from) ==
    SubSeq(list, from + 1, IF from + chunk_size < Len(list) THEN from + chunk_size ELSE Len(list))

\* SELECT a.* FROM table a INNER JOIN filter_rsid f ON a.rsid = f.rsid: each
\* row of a once per equal row of f.  DuckDB fixes no order of the result; the
\* frame is written in table order.
InnerJoin(rows, f) ==
    Concat([k \in DOMAIN rows |-> Repeat(rows[k], Count(rows[k], f))])

\* df[df['rsid'].isin(set(rsid_list))]
IsIn(rows, list) == SelectSeq(rows, LAMBDA r : r \in Range(list))

-----------------------------------------------------------------------------
(* query_gwas(gwas_path, rsid_list)                                        *)

QInit ==
    /\ exists \in BOOLEAN
    /\ gwas_path \in Exts
    /\ file \in FilesAt(exists, Lower(gwas_path))
    /\ rsid_list \in SeqsUpTo(Ids, MaxLen)
    /\ pc = "exists"
    /\ con = "none"
    /\ table = 0
    /\ filter_rsid = NoTemp
    /\ i = 0
    /\ inserts = <<>>
    /\ df = NoFrame
    /\ result = NoResult
    /\ log = <<>>
    /\ prev = NoResult

QIdle ==
    /\ exists = FALSE
    /\ gwas_path = ".parquet"
    /\ file = Unreadable
    /\ rsid_list = <<>>
    /\ pc = "idle"
    /\ con = "none"
    /\ table = 0
    /\ filter_rsid = NoTemp
    /\ i = 0
    /\ inserts = <<>>
    /\ df = NoFrame
    /\ result = NoResult
    /\ log = <<>>
    /\ prev = NoResult

\* the call ends: a return or a raise.  Nothing else is touched: a raise out
\* of the try block runs no cleanup, so con and filter_rsid stay as they are
\* (the raised error keeps the frame and with it the connection alive).
Finish(r) ==
    /\ result' = r
    /\ pc' = "done"

\* mutant of CheckExists: the extension is looked at before the path
CheckExists_AfterExt ==
    /\ UNCHANGED gvars
    /\ pc = "exists"
    /\ log' = Append(log, "exists")
    /\ IF Lower(gwas_path) \notin SupportedExts
       THEN Finish(Raised(<<"Unsupported file type: ", Lower(gwas_path),
                            ". Only .parquet and .duckdb are supported.">>))
       ELSE IF ~exists
            THEN Finish(Raised(<<"File does not exist: ", gwas_path>>))
            ELSE pc' = "ext" /\ UNCHANGED result
    /\ UNCHANGED <<exists, gwas_path, file, rsid_list, con, table, filter_rsid, i,
                   inserts, df, prev>>

\* lines 39-41
CheckExists ==
    /\ UNCHANGED gvars
    /\ pc = "exists"
    /\ log' = Append(log, "exists")
    /\ IF ~exists
       THEN Finish(Raised(<<"File does not exist: ", gwas_path>>))
       ELSE pc' = "ext" /\ UNCHANGED result
    /\ UNCHANGED <<exists, gwas_path, file, rsid_list, con, table, filter_rsid, i,
                   inserts, df, prev>>

\* lines 43-46
CheckExt ==
    /\ UNCHANGED gvars
    /\ pc = "ext"
    /\ log' = Append(log, "ext")
    /\ IF Lower(gwas_path) \notin SupportedExts
       THEN Finish(Raised(<<"Unsupported file type: ", Lower(gwas_path),
                            ". Only .parquet and .duckdb are supported.">>))
       ELSE pc' = "empty" /\ UNCHANGED result
    /\ UNCHANGED <<exists, gwas_path, file, rsid_list, con, table, filter_rsid, i,
                   inserts, df, prev>>

\* mutant of CheckEmpty: no short-circuit on the empty list
CheckEmpty_NoShortCircuit ==
    /\ UNCHANGED gvars
    /\ pc = "empty"
    /\ log' = Append(log, "empty")
    /\ pc' = "load"
    /\ UNCHANGED <<exists, gwas_path, file, rsid_list, con, table, filter_rsid, i,
                   inserts, df, result, prev>>

\* lines 48-50
CheckEmpty ==
    /\ UNCHANGED gvars
    /\ pc = "empty"
    /\ log' = Append(log, "empty")
    /\ IF rsid_list = <<>>
       THEN Finish(Returned(REQUIRED_COLUMNS, <<>>))
       ELSE pc' = "load" /\ UNCHANGED result
    /\ UNCHANGED <<exists, gwas_path, file, rsid_list, con, table, filter_rsid, i,
                   inserts, df, prev>>

\* lines 53-55: pd.read_parquet
ReadParquet ==
    /\ UNCHANGED gvars
    /\ pc = "load"
    /\ Lower(gwas_path) = ".parquet"
    /\ log' = Append(log, "read")
    /\ IF ~file.readable
       THEN Finish(LoadFailure(<<"IO Error">>)) /\ UNCHANGED df
       ELSE /\ df' = [columns |-> file.tables[1].columns, rows |-> file.tables[1].rows]
            /\ pc' = "validate"
            /\ UNCHANGED result
    /\ UNCHANGED <<exists, gwas_path, file, rsid_list, con, table, filter_rsid, i,
                   inserts, prev>>

\* lines 56-58: duckdb.connect(gwas_path, read_only=True)
Connect ==
    /\ UNCHANGED gvars
    /\ pc = "load"
    /\ Lower(gwas_path) = ".duckdb"
    /\ log' = Append(log, "connect")
    /\ IF ~file.readable
       THEN Finish(LoadFailure(<<"IO Error">>)) /\ UNCHANGED con
       ELSE con' = "open" /\ pc' = "tables" /\ UNCHANGED result
    /\ UNCHANGED <<exists, gwas_path, file, rsid_list, table, filter_rsid, i,
                   inserts, df, prev>>

\* lines 60-66: SHOW TABLES and the choice of the table
ShowTables ==
    /\ UNCHANGED gvars
    /\ pc = "tables"
    /\ log' = Append(log, "tables")
    /\ IF ResolveTable(file.tables) = 0
       THEN Finish(LoadFailure(<<"No tables found in DuckDB file.">>)) /\ UNCHANGED table
       ELSE table' = ResolveTable(file.tables) /\ pc' = "create" /\ UNCHANGED result
    /\ UNCHANGED <<exists, gwas_path, file, rsid_list, con, filter_rsid, i,
                   inserts, df, prev>>

\* line 69: CREATE TEMP TABLE filter_rsid, and the loop's range(0, len, chunk_size)
CreateTemp ==
    /\ UNCHANGED gvars
    /\ pc = "create"
    /\ log' = Append(log, "create")
    /\ filter_rsid' = [state |-> "live", rows |-> <<>>]
    /\ i' = 0
    /\ pc' = "insert"
    /\ UNCHANGED <<exists, gwas_path, file, rsid_list, con, table, inserts, df,
                   result, prev>>

\* lines 72-76: one pass of the chunk loop
InsertChunk ==
    /\ UNCHANGED gvars
    /\ pc = "insert"
    /\ i < Len(rsid_list)
    /\ log' = Append(log, "insert")
    /\ LET chunk == Chunk(rsid_list, i)
           parsed == InsertValues(chunk)
       IN  IF ~parsed.ok
           THEN Finish(LoadFailure(<<"Parser Error">>)) /\ UNCHANGED <<filter_rsid, i, inserts>>
           ELSE /\ filter_rsid' = [filter_rsid EXCEPT !.rows = @ \o parsed.rows]
                /\ inserts' = Append(inserts, [from |-> i + 1, to |-> i + Len(chunk)])
                /\ i' = i + chunk_size
                /\ UNCHANGED <<pc, result>>
    /\ UNCHANGED <<exists, gwas_path, file, rsid_list, con, table, df, prev>>

\* line 72: the range is exhausted
InsertDone ==
    /\ UNCHANGED gvars
    /\ pc = "insert"
    /\ i >= Len(rsid_list)
    /\ pc' = "join"
    /\ UNCHANGED <<exists, gwas_path, file, rsid_list, con, table, filter_rsid, i,
                   inserts, df, result, log, prev>>

\* lines 77-81: the join; a table without an rsid column fails to bind a.rsid
JoinFilter ==
    /\ UNCHANGED gvars
    /\ pc = "join"
    /\ log' = Append(log, "join")
    /\ LET t == file.tables[table]
       IN  IF "rsid" \notin Range(t.columns)
           THEN Finish(LoadFailure(<<"Binder Error">>)) /\ UNCHANGED df
           ELSE /\ df' = [columns |-> t.columns, rows |-> InnerJoin(t.rows, filter_rsid.rows)]
                /\ pc' = "close"
                /\ UNCHANGED result
    /\ UNCHANGED <<exists, gwas_path, file, rsid_list, con, table, filter_rsid, i,
                   inserts, prev>>

\* line 82: con.close(), which also drops the connection's temporary table
Close ==
    /\ UNCHANGED gvars
    /\ pc = "close"
    /\ log' = Append(log, "close")
    /\ con' = "closed"
    /\ filter_rsid' = [state |-> "dropped", rows |-> <<>>]
    /\ pc' = "validate"
    /\ UNCHANGED <<exists, gwas_path, file, rsid_list, table, i, inserts, df,
                   result, prev>>

\* lines 88-91
ValidateColumns ==
    /\ UNCHANGED gvars
    /\ pc = "validate"
    /\ log' = Append(log, "validate")
    /\ IF Missing(df.columns) # <<>>
       THEN Finish(Raised(<<"Missing required columns: ">> \o Missing(df.columns)))
       ELSE pc' = "filter" /\ UNCHANGED result
    /\ UNCHANGED <<exists, gwas_path, file, rsid_list, con, table, filter_rsid, i,
                   inserts, df, prev>>

\* lines 93-97: the membership filter, for .parquet only
FilterRsid ==
    /\ UNCHANGED gvars
    /\ pc = "filter"
    /\ IF Lower(gwas_path) = ".parquet"
       THEN /\ df' = [df EXCEPT !.rows = IsIn(@, rsid_list)]
            /\ log' = Append(log, "isin")
       ELSE UNCHANGED <<df, log>>
    /\ pc' = "select"
    /\ UNCHANGED <<exists, gwas_path, file, rsid_list, con, table, filter_rsid, i,
                   inserts, result, prev>>

\* lines 99-101: the required columns in schema order
SelectColumns ==
    /\ UNCHANGED gvars
    /\ pc = "select"
    /\ log' = Append(log, "select")
    /\ Finish(Returned(REQUIRED_COLUMNS, df.rows))
    /\ UNCHANGED <<exists, gwas_path, file, rsid_list, con, table, filter_rsid, i,
                   inserts, df, prev>>

\* the caller stores the table of a .parquet file as table associations_clean
\* of a .duckdb file and calls query_gwas again with the same identifiers
CallOnDuckdb ==
    /\ UNCHANGED gvars
    /\ pc = "done"
    /\ prev = NoResult
    /\ exists
    /\ Lower(gwas_path) = ".parquet"
    /\ file.readable
    /\ prev' = result
    /\ gwas_path' = ".duckdb"
    /\ file' = DuckdbFile(<<Tbl("associations_clean", file.tables[1].columns,
                                file.tables[1].rows)>>)
    /\ pc' = "exists"
    /\ con' = "none"
    /\ table' = 0
    /\ filter_rsid' = NoTemp
    /\ i' = 0
    /\ inserts' = <<>>
    /\ df' = NoFrame
    /\ result' = NoResult
    /\ log' = <<>>
    /\ UNCHANGED <<exists, rsid_list>>

-----------------------------------------------------------------------------
(* load_user_genotype(filepath)                                            *)

\* the delimiters the loop tries, in order: tab, comma, space
Seps == <<"\t", ",", " ">>

Delims == {"\t", ",", " ", "|"}

\* header lines of genotype files, as their fields
Headers ==
    { <<"rsid", "genotype">>,
      <<"RSID", "Genotype">>,
      <<"rsid", "chromosome", "position", "allele1", "allele2">>,
      <<"rsid", "chromosome">>,
      <<"snp", "genotype">> }

\* c.lower() on the words of the headers
LowerWord(w) ==
    CASE w = "RSID" -> "rsid"
      [] w = "Genotype" -> "genotype"
      [] OTHER -> w

\* a genotype file: a header line and ndata data lines of as many fields,
\* the fields separated by delim; or a file of no lines at all
GenotypeFiles ==
    { [isfile |-> TRUE, ext |-> e, empty |-> TRUE, delim |-> ",", header |-> <<>>, ndata |-> 0]
        : e \in {".txt", ".csv", ".CSV", ".xlsx"} }
    \cup
    { [isfile |-> TRUE, ext |-> e, empty |-> FALSE, delim |-> d, header |-> h, ndata |-> n]
        : e \in {".txt", ".csv", ".CSV", ".xlsx"}, d \in Delims, h \in Headers,
          n \in 0..MaxDataRows }
    \cup
    { [isfile |-> FALSE, ext |-> e, empty |-> TRUE, delim |-> ",", header |-> <<>>, ndata |-> 0]
        : e \in {".txt", ".xlsx"} }

\* pd.read_csv(filepath, sep=sep, comment='#', dtype=str): the column names
\* of the frame, each the sequence of the words and delimiters it is made of.
\* A line is split at sep only: read with another separator than its own, the
\* header is one column.  A file of no lines raises (EmptyDataError).
ReadCsv(f, sepr) ==
    IF f.empty THEN [ok |-> FALSE, columns |-> <<>>]
    ELSE IF sepr = f.delim
         THEN [ok |-> TRUE, columns |-> [k \in DOMAIN f.header |-> <<f.header[k]>>]]
    ELSE [ok |-> TRUE,
          columns |-> <<Join(<<f.delim>>, [k \in DOMAIN f.header |-> <<f.header[k]>>])>>]

\* [c.lower() for c in temp_df.columns]
LowerColumns(columns) ==
    [k \in DOMAIN columns |-> [j \in DOMAIN columns[k] |-> LowerWord(columns[k][j])]]

\* lines 38-40: genotype = allele1 + allele2 when rsid, allele1 and allele2 are columns
WithGenotype(columns) ==
    IF {<<"rsid">>, <<"allele1">>, <<"allele2">>} \subseteq Range(columns)
       /\ <<"genotype">> \notin Range(columns)
    THEN Append(columns, <<"genotype">>)
    ELSE columns

GInit ==
    /\ gfile \in GenotypeFiles
    /\ gpc = "isfile"
    /\ sep_i = 1
    /\ gresult = NoResult

GIdle ==
    /\ gfile = [isfile |-> FALSE, ext |-> ".txt", empty |-> TRUE, delim |-> ",",
                header |-> <<>>, ndata |-> 0]
    /\ gpc = "idle"
    /\ sep_i = 1
    /\ gresult = NoResult

\* lines 22-24
GCheckFile ==
    /\ UNCHANGED qvars
    /\ gpc = "isfile"
    /\ IF ~gfile.isfile
       THEN gresult' = Raised(<<"File not found: ">>) /\ gpc' = "done"
       ELSE gpc' = "ext" /\ UNCHANGED gresult
    /\ UNCHANGED <<gfile, sep_i>>

\* lines 26-29
GCheckExt ==
    /\ UNCHANGED qvars
    /\ gpc = "ext"
    /\ IF Lower(gfile.ext) \notin {".txt", ".csv"}
       THEN /\ gresult' = Raised(<<"Unsupported file type: ", Lower(gfile.ext),
                                   ". Only .txt and .csv are supported.">>)
            /\ gpc' = "done"
       ELSE gpc' = "try" /\ UNCHANGED gresult
    /\ UNCHANGED <<gfile, sep_i>>

\* lines 33-43: one pass of the delimiter loop; the first read that does not
\* raise is returned as it is
TrySep ==
    /\ UNCHANGED qvars
    /\ gpc = "try"
    /\ sep_i <= Len(Seps)
    /\ LET temp_df == ReadCsv(gfile, Seps[sep_i])
       IN  IF ~temp_df.ok
           THEN sep_i' = sep_i + 1 /\ UNCHANGED <<gpc, gresult>>
           ELSE /\ gresult' = Returned(WithGenotype(LowerColumns(temp_df.columns)),
                                       [k \in 1..gfile.ndata |-> k])
                /\ gpc' = "done"
                /\ UNCHANGED sep_i
    /\ UNCHANGED gfile

\* lines 44-46: no delimiter parsed; the raise is caught by the outer except
\* and raised again as "Error reading file: ..."
NoSepParsed ==
    /\ UNCHANGED qvars
    /\ gpc = "try"
    /\ sep_i > Len(Seps)
    /\ gresult' = Raised(<<"Error reading file: ",
                           "Could not parse file with expected delimiters.">>)
    /\ gpc' = "done"
    /\ UNCHANGED <<gfile, sep_i>>

-----------------------------------------------------------------------------

Init ==
    \/ QInit /\ GIdle
    \/ QIdle /\ GInit

Next ==
    \/ CheckExists
    \/ CheckExt
    \/ CheckEmpty
    \/ ReadParquet
    \/ Connect
    \/ ShowTables
    \/ CreateTemp
    \/ InsertChunk
    \/ InsertDone
    \/ JoinFilter
    \/ Close
    \/ ValidateColumns
    \/ FilterRsid
    \/ SelectColumns
    \/ CallOnDuckdb
    \/ GCheckFile
    \/ GCheckExt
    \/ TrySep
    \/ NoSepParsed

Spec == Init /\ [][Next]_vars

-----------------------------------------------------------------------------
(* Vocabulary of the properties.                                           *)

Done == pc = "done"

Ext == Lower(gwas_path)

\* the two recognized extensions, as the specification names them
Recognized == {".parquet", ".duckdb"}

\* the association table T the call reads
SourceTable == file.tables[ResolveTable(file.tables)]

\* the steps that open or read a backend
BackendSteps == {"read", "connect", "tables", "create", "insert", "join", "close"}

\* the steps that filter rows
FilterSteps == {"join", "isin"}

SameBag(a, b) == \A x \in Range(a) \cup Range(b) : Count(x, a) = Count(x, b)

QuoteFree(list) == \A k \in DOMAIN list : "'" \notin Range(list[k])

CeilDiv(n, d) == (n + d - 1) \div d

-----------------------------------------------------------------------------
(* C1: for both backends and every non-empty identifier list L, a returned *)
(* table holds only rows whose rsid is in L, and each row of T whose rsid  *)
(* is in L appears as many times as in T, however often L repeats it.      *)
C1_NoDuplication ==
    (Done /\ result.kind = "ok" /\ rsid_list # <<>>) =>
        /\ \A k \in DOMAIN result.rows : result.rows[k] \in Range(rsid_list)
        /\ \A x \in Range(rsid_list) : Count(x, result.rows) = Count(x, SourceTable.rows)

(* C2: with a non-empty list and an existing, supported file that loads    *)
(* (it is readable, holds a table, and no identifier holds a quote, so     *)
(* that only the columns can fail), a table lacking required columns makes *)
(* the call raise MissingColumns naming exactly the absent columns, before *)
(* any membership test or join.                                            *)
C2_ValidationBeforeFilter ==
    (/\ Done /\ exists /\ Ext \in Recognized
     /\ rsid_list # <<>> /\ QuoteFree(rsid_list)
     /\ file.readable /\ file.tables # <<>>
     /\ Missing(SourceTable.columns) # <<>>) =>
        /\ Category(result) = "MissingColumns"
        /\ Tail(result.message) = Missing(SourceTable.columns)
        /\ Range(log) \cap FilterSteps = {}

(* C3: on the .duckdb backend every ended call (returned or raised) has    *)
(* closed the connection it opened and released its temporary table.       *)
C3_ConnectionReleased ==
    (Done /\ con # "none") => (con = "closed" /\ filter_rsid.state # "live")

(* C4: on the .duckdb backend with a non-empty list, a database of zero    *)
(* tables makes the call fail in the NoTablesFound category, which is not  *)
(* the LoadFailure category.                                               *)
C4_NoTablesCategory ==
    (/\ Done /\ exists /\ Ext = ".duckdb" /\ rsid_list # <<>>
     /\ file.readable /\ file.tables = <<>>) =>
        Category(result) = "NoTablesFound"

(* C5: validation is ordered, first failure wins: existence, then the      *)
(* extension, then the empty-list short-circuit, then the backend.  A      *)
(* missing path raises NotFound whatever the extension and the list, and a *)
(* call that fails on existence or extension never opens a backend.        *)
C5_ValidationOrder ==
    /\ \A k \in DOMAIN log :
          /\ (k = 1 => log[k] = "exists")
          /\ (k = 2 => log[k] = "ext")
          /\ (k = 3 => log[k] = "empty")
          /\ (log[k] \in BackendSteps => k >= 4)
    /\ (pc \notin {"idle", "exists"} /\ ~exists) =>
          /\ Done
          /\ result = Raised(<<"File does not exist: ", gwas_path>>)
          /\ log = <<"exists">>
    /\ (Done /\ Category(result) \in {"NotFound", "UnsupportedFormat"}) =>
          /\ Range(log) \cap BackendSteps = {}
          /\ con = "none"
          /\ df = NoFrame

\* a missing .txt path with an empty list has raised NotFound
C5_Witness ==
    /\ Done /\ ~exists /\ gwas_path = ".txt" /\ rsid_list = <<>>
    /\ Category(result) = "NotFound"

(* C6, as stated: an unrecognized extension makes the call fail with       *)
(* UnsupportedFormat whether or not the file exists.                       *)
C6_UnsupportedAlways ==
    (Done /\ Ext \notin Recognized) => Category(result) = "UnsupportedFormat"

(* C6, amended: for an existing path, an unrecognized extension makes the  *)
(* call fail with UnsupportedFormat, whatever the file holds and whatever  *)
(* the identifier list; nothing is opened.                                 *)
C6_UnsupportedWhenExists ==
    (pc \notin {"idle", "exists", "ext"} /\ exists /\ Ext \notin Recognized) =>
        /\ Done
        /\ result = Raised(<<"Unsupported file type: ", Ext,
                             ". Only .parquet and .duckdb are supported.">>)
        /\ Range(log) \cap BackendSteps = {}

\* an existing, readable .txt file and a non-empty list: UnsupportedFormat
C6_Witness ==
    /\ Done /\ exists /\ gwas_path = ".txt" /\ file = TextFile /\ rsid_list # <<>>
    /\ Category(result) = "UnsupportedFormat"

(* C7: for an existing file of a supported extension, an empty identifier  *)
(* list returns zero rows under exactly the 17 required columns in schema  *)
(* order, and the backend is neither opened nor read: the call succeeds    *)
(* also on a file that is unreadable, has no tables or lacks columns.      *)
C7_EmptyListFastPath ==
    (pc \notin {"idle", "exists", "ext", "empty"} /\ exists /\ Ext \in Recognized
     /\ rsid_list = <<>>) =>
        /\ Done
        /\ result = Returned(REQUIRED_COLUMNS, <<>>)
        /\ Len(result.columns) = 17
        /\ log = <<"exists", "ext", "empty">>
        /\ con = "none"
        /\ df = NoFrame

\* the empty list on a .duckdb file whose table lacks the rsid column
C7_Witness ==
    /\ Done /\ exists /\ Ext = ".duckdb" /\ rsid_list = <<>>
    /\ file.tables # <<>> /\ "rsid" \notin Range(SourceTable.columns)
    /\ result.kind = "ok" /\ result.rows = <<>>

(* C8: the same table stored as .parquet and as table associations_clean   *)
(* of a .duckdb file, queried with the same list, fails in the same        *)
(* category on both or returns the same multiset of rows under the same    *)
(* columns on both, the rows being those whose rsid equals a listed one.   *)
C8_BackendsEquivalent ==
    (Done /\ prev # NoResult) =>
        \/ /\ prev.kind = "error" /\ result.kind = "error"
           /\ Category(prev) = Category(result)
        \/ /\ prev.kind = "ok" /\ result.kind = "ok"
           /\ prev.columns = result.columns
           /\ SameBag(prev.rows, result.rows)
           /\ SameBag(result.rows, IsIn(SourceTable.rows, rsid_list))

(* C9: load_user_genotype returns a table that has both columns rsid and   *)
(* genotype, or raises; it never returns a table without them.             *)
C9_ColumnsOrError ==
    (gpc = "done") =>
        \/ gresult.kind = "error"
        \/ {<<"rsid">>, <<"genotype">>} \subseteq Range(gresult.columns)

(* C10, the loop alone: through the chunk loop the INSERTs run are         *)
(* consecutive non-empty slices of at most chunk_size identifiers that     *)
(* cover the list in order up to i, and at the join there are              *)
(* ceil(n / chunk_size) of them.                                           *)
BatchesCoverList ==
    (pc \in {"insert", "join", "close"}) =>
        /\ \A k \in DOMAIN inserts :
              /\ inserts[k].from = (k - 1) * chunk_size + 1
              /\ inserts[k].from <= inserts[k].to
              /\ inserts[k].to - inserts[k].from + 1 <= chunk_size
              /\ inserts[k].to <= Len(rsid_list)
              /\ (k < Len(inserts) => inserts[k].to + 1 = inserts[k + 1].from)
        /\ (pc \in {"join", "close"}) =>
              /\ Len(inserts) = CeilDiv(Len(rsid_list), chunk_size)
              /\ inserts[Len(inserts)].to = Len(rsid_list)

(* C10: for a list of n >= 1 identifiers the loop runs ceil(n/chunk_size)  *)
(* inserts of consecutive, disjoint, non-empty slices of at most           *)
(* chunk_size identifiers, and when the join runs the temporary table      *)
(* holds exactly the identifiers of the list with their multiplicities.    *)
C10_TempTableHoldsList ==
    /\ BatchesCoverList
    /\ (pc = "join") =>
          /\ Len(filter_rsid.rows) = Len(rsid_list)
          /\ SameBag(filter_rsid.rows, rsid_list)

====
